---- MODULE Spec2Model ----
(***************************************************************************)
(* A model of rustCacheDb (src/src/lib.rs): the length-prefixed wire       *)
(* protocol and its resumable parser (CacheProtocol), the server's         *)
(* per-connection loop (CacheDb::client_handler) and the client            *)
(* multiplexer (CacheClient::push / pull / cache_client_handler).          *)
(*                                                                         *)
(* Bytes are naturals 0..255, keys and values are byte sequences (the      *)
(* String codec of the tests), a socket direction is the sequence of bytes *)
(* written and not yet read.                                               *)
(***************************************************************************)
EXTENDS Naturals, Sequences, FiniteSets

(***************************************************************************)
(* Bounds of the model.                                                    *)
(***************************************************************************)
\* The read buffer of a handler. The code's TCP_READ_BUFF_SIZE is 1024
\* (lib.rs:13); the model keeps the code's arithmetic and scales the size so
\* that frames smaller than, equal to and larger than the buffer all occur.
TCP_READ_BUFF_SIZE == 8
\* Frames of the byte stream a connection is fed in SpecParser.
MaxFrames == 2
\* push / pull calls made by the client's callers in Spec.
MaxOps == 3

\* push / pull calls made in SpecTerminate.
MaxTerminateOps == 2
\* Frames of the byte stream each connection is fed in SpecServer.
MaxServerFrames == 2
\* pull calls made in SpecZeroRead.
MaxZeroReadOps == 2
\* push / get / set calls made on the CacheDb in SpecStore.
MaxStoreOps == 3
\* push / pull / pull_async calls made in SpecAsync.
MaxAsyncOps == 2
\* push / pull calls made in SpecOverflow.
MaxOverflowOps == 2

\* The largest size get_size can report.  The code's is u16::MAX = 65535
\* (lib.rs:83); the model keeps the test and scales the limit, above every
\* field the other specifications use.
U16_MAX == 12

Min(a, b) == IF a < b THEN a ELSE b

(***************************************************************************)
(* Data: keys, values, opcodes.                                            *)
(***************************************************************************)
Default == << >>                      \* KeyT::default(), ValT::default()
KeyA == <<97>>
KeyB == <<98>>
ValX == <<120>>
ValY == <<121>>
\* A field one byte longer than the read buffer.
LongKey == [i \in 1..(TCP_READ_BUFF_SIZE + 1) |-> 107]

ProtOpCode == {"PullOp", "PushOp", "PullReplyOp", "PullReplyNotFoundOp", "TerminateConn"}

\* An encoder that numbers TerminateConn like PullReplyNotFoundOp (what
\* prot_op_code_to_u8 does not do).
prot_op_code_to_u8_mixed(op_code) ==
    CASE op_code = "PullOp" -> 1
      [] op_code = "PushOp" -> 2
      [] op_code = "PullReplyOp" -> 3
      [] op_code = "PullReplyNotFoundOp" -> 4
      [] op_code = "TerminateConn" -> 4

prot_op_code_to_u8(op_code) ==
    CASE op_code = "PullOp" -> 1
      [] op_code = "PushOp" -> 2
      [] op_code = "PullReplyOp" -> 3
      [] op_code = "PullReplyNotFoundOp" -> 4
      [] op_code = "TerminateConn" -> 5

\* A decoder that takes every byte for an opcode (what u8_to_prot_op_code is not).
u8_to_prot_op_code_lenient(op_code) ==
    CASE op_code = 1 -> "PullOp"
      [] op_code = 3 -> "PullReplyOp"
      [] op_code = 4 -> "PullReplyNotFoundOp"
      [] op_code = 5 -> "TerminateConn"
      [] OTHER -> "PushOp"

\* Option<ProtOpCode>: "None" for a byte that is no opcode.
u8_to_prot_op_code(op_code) ==
    CASE op_code = 1 -> "PullOp"
      [] op_code = 2 -> "PushOp"
      [] op_code = 3 -> "PullReplyOp"
      [] op_code = 4 -> "PullReplyNotFoundOp"
      [] op_code = 5 -> "TerminateConn"
      [] OTHER -> "None"

\* u16::to_be_bytes / u16::from_be_bytes
to_be_bytes(n) == << (n \div 256) % 256, n % 256 >>
from_be_bytes(b) == b[1] * 256 + b[2]

\* GenericKeyVal for the String codec of the tests.
get_size(v) == Len(v)
get_bytes(v) == v
\* from_utf8 rejects a byte that can never occur in UTF-8.
from_bytes(data) ==
    IF \E i \in 1..Len(data) : data[i] >= 248
    THEN [ok |-> FALSE, v |-> Default]
    ELSE [ok |-> TRUE, v |-> data]

KeyValObj(k, v) == [key |-> k, val |-> v]

\* get_size fails when the size does not fit into a u16.
get_size_err(v) == Len(v) > U16_MAX

\* An encoder whose sizes never overflow (what assemble_buff is not).
assemble_err_never(op_code, obj) == "none"

\* The Err with which assemble_buff returns ("none": it returns Ok): the `?`
\* of key.get_size() and, for every opcode but PullOp, of val.get_size().
assemble_err(op_code, obj) ==
    IF get_size_err(obj.key) \/ (op_code # "PullOp" /\ get_size_err(obj.val))
    THEN "ProtocolSizeBufferOverflow"
    ELSE "none"

assemble_buff(op_code, obj) ==
    <<prot_op_code_to_u8(op_code)>>
      \o to_be_bytes(get_size(obj.key))
      \o get_bytes(obj.key)
      \o (IF op_code # "PullOp" THEN to_be_bytes(get_size(obj.val)) ELSE <<0, 0>>)
      \o (IF op_code # "PullOp" THEN get_bytes(obj.val) ELSE << >>)

(***************************************************************************)
(* The resumable parser.                                                   *)
(***************************************************************************)
\* CacheProtocol::new
NewParser ==
    [parsed_protocoll_segment |-> 0,
     parsed_bytes_total |-> 0,
     to_parse_bytes_total |-> 0,
     key_size |-> 0,
     val_size |-> 0]

ParseResult(kind, self, op_code, obj, buff, left) ==
    [kind |-> kind, parser |-> self, op_code |-> op_code, obj |-> obj,
     buff |-> buff, left_over_size |-> left]

\* The default arm of parse_buff: the bytes from parsed_bytes_total on are
\* cloned and copied to the front of the buffer.  The clone takes the buffer
\* to its END (buff[(tcp_read_size-left_over_size)..]), the destination is
\* buff[..left_over_size]: copy_from_slice panics unless the two lengths are
\* equal, which is exactly when the buffer is full.
LeftOver(self, buff, tcp_read_size, op_code, obj) ==
    LET left_over_size == tcp_read_size - self.parsed_bytes_total
        src_len == TCP_READ_BUFF_SIZE - (tcp_read_size - left_over_size)
    IN IF left_over_size > 0
       THEN IF src_len # left_over_size
            THEN ParseResult("Panic", self, op_code, obj, buff, left_over_size)
            ELSE ParseResult("Stall", self, op_code, obj,
                             SubSeq(buff, self.parsed_bytes_total + 1, tcp_read_size),
                             left_over_size)
       ELSE ParseResult("Stall", self, op_code, obj, << >>, 0)

\* A parser that hands every field to the codec (what parse_buff does not do).
has_field_always(size) == TRUE

\* parse_buff hands a field to the codec only if its size is not 0
\* (if self.key_size != 0, if self.val_size != 0).
has_field(size) == size # 0

\* CacheProtocol::parse_buff: kind is "Frame" for Ok((true, 0)), "Stall" for
\* Ok((false, left_over_size)), "ParsingErr" / "DecodingErr" for Err(..) and
\* "Panic" for the panic of copy_from_slice.
RECURSIVE parse_buff(_, _, _, _, _)
parse_buff(self, buff, tcp_read_size, op_code, obj) ==
    LET seg == self.parsed_protocoll_segment
        P == self.parsed_bytes_total
        T == self.to_parse_bytes_total
        field == SubSeq(buff, P + 1, T)
    IN
    CASE seg = 0 /\ tcp_read_size >= P + 1 ->
           LET op_code_en == u8_to_prot_op_code(buff[P + 1])
           IN IF op_code_en = "None"
              THEN ParseResult("ParsingErr", [self EXCEPT !.to_parse_bytes_total = T + 1],
                               op_code, obj, buff, 0)
              ELSE parse_buff([self EXCEPT !.parsed_protocoll_segment = 1,
                                           !.parsed_bytes_total = T + 1,
                                           !.to_parse_bytes_total = T + 1 + 2],
                              buff, tcp_read_size, op_code_en, obj)
      [] seg = 1 /\ tcp_read_size >= T ->
           LET ks == from_be_bytes(field)
           IN parse_buff([self EXCEPT !.key_size = ks,
                                      !.parsed_protocoll_segment = 2,
                                      !.parsed_bytes_total = T,
                                      !.to_parse_bytes_total = T + ks],
                         buff, tcp_read_size, op_code, obj)
      [] seg = 2 /\ tcp_read_size >= T ->
           LET dec == from_bytes(field)
               next == [self EXCEPT !.parsed_protocoll_segment = 3,
                                    !.parsed_bytes_total = T,
                                    !.to_parse_bytes_total = T + 2]
           IN IF has_field(self.key_size)
              THEN IF dec.ok
                   THEN parse_buff(next, buff, tcp_read_size, op_code,
                                   [obj EXCEPT !.key = dec.v])
                   ELSE ParseResult("DecodingErr", self, op_code, obj, buff, 0)
              ELSE parse_buff(next, buff, tcp_read_size, op_code, obj)
      [] seg = 3 /\ tcp_read_size >= T ->
           LET vs == from_be_bytes(field)
           IN parse_buff([self EXCEPT !.val_size = vs,
                                      !.parsed_protocoll_segment = 4,
                                      !.parsed_bytes_total = T,
                                      !.to_parse_bytes_total = T + vs],
                         buff, tcp_read_size, op_code, obj)
      [] seg = 4 /\ tcp_read_size >= T ->
           LET dec == from_bytes(field)
               next == [self EXCEPT !.parsed_protocoll_segment = 0,
                                    !.parsed_bytes_total = T]
           IN IF has_field(self.val_size)
              THEN IF dec.ok
                   THEN ParseResult("Frame", next, op_code, [obj EXCEPT !.val = dec.v], buff, 0)
                   ELSE ParseResult("DecodingErr", self, op_code, obj, buff, 0)
              ELSE ParseResult("Frame", next, op_code, obj, buff, 0)
      [] OTHER -> LeftOver(self, buff, tcp_read_size, op_code, obj)

(***************************************************************************)
(* State.                                                                  *)
(***************************************************************************)
VARIABLES
    key_val_store,       \* CacheDb.key_val_store: the server's entries, in push order
    c2s,                 \* bytes written by the client, not yet read by the server
    s2c,                 \* bytes written by the server, not yet read by the client
    srv,                 \* CacheDb::client_handler: its locals and its position
    rdr,                 \* CacheClient::cache_client_handler: its locals and its position
    key_val_sync_store,  \* CacheClient.key_val_sync_store: the pending slots
    caller,              \* the threads calling push / pull: position, arguments, result
    ops,                 \* calls the callers may still make
    input,               \* history: the frames written to the server's connection
    emitted,             \* history: the frames the server's parser has emitted
    reads,               \* history: how the server's reads cut the stream
    hist,                \* history of the client's calls, for the statements below
    conn2,               \* a second connection of the server: wires, handler, history
    local                \* history: the calls made on the CacheDb in its own process

vars == <<key_val_store, c2s, s2c, srv, rdr, key_val_sync_store, caller, ops,
          input, emitted, reads, hist, conn2, local>>

Threads == {"t1", "t2"}
Keys == {KeyA, KeyB}
Vals == {ValX, ValY}

\* The locals of a handler thread before its first read.
NewHandler(pc) ==
    [pc |-> pc,
     buff |-> << >>,                 \* the meaningful bytes of buff: buff[..tcp_read_size]
     tcp_read_size |-> 0,
     buff_left_over_size |-> 0,
     parser |-> NewParser,
     parsed_op_code |-> "PullOp",
     parsed_obj |-> KeyValObj(Default, Default),
     err |-> "none",                 \* why the thread ended: the Err or the panic
     notify |-> << >>]               \* reader only: slots still to be notified

\* No second connection has been accepted.
NoConn ==
    [c2s |-> << >>, s2c |-> << >>, h |-> NewHandler("off"), input |-> << >>,
     emitted |-> << >>, peer_closed |-> FALSE, ended_first |-> FALSE]

\* No call has been made on the CacheDb in its own process.
NoCall == << >>

(***************************************************************************)
(* The read loop shared by both handlers.                                  *)
(***************************************************************************)
\* How many bytes a read can deliver: what is in flight, into buff[buff_left_over_size..].
ReadSizes(h, wire) == 1..Min(Len(wire), TCP_READ_BUFF_SIZE - h.buff_left_over_size)

\* A read that delivers all that is in flight and fits.
MaxRead(h, wire) == Min(Len(wire), TCP_READ_BUFF_SIZE - h.buff_left_over_size)

\* One read of `chunk` (not empty) and the rebase of the parser's cursors.
ReadStep(h, chunk) ==
    LET reset == h.buff_left_over_size = 0 /\ h.parser.parsed_protocoll_segment = 0
    IN [h EXCEPT
          !.buff = SubSeq(h.buff, 1, h.buff_left_over_size) \o chunk,
          !.tcp_read_size = Len(chunk) + h.buff_left_over_size,
          !.parser = IF reset
                     THEN [@ EXCEPT !.parsed_bytes_total = 0, !.to_parse_bytes_total = 0]
                     ELSE [@ EXCEPT !.to_parse_bytes_total = @ - h.parser.parsed_bytes_total,
                                    !.parsed_bytes_total = 0],
          !.pc = "parse"]

\* A loop that takes a read of 0 bytes like any other read (what the
\* handlers do not do).
ReadZero_Parses(h) == ReadStep(h, << >>)

\* A read that returned 0 bytes: tcp_read_size is 0 and the loop continues
\* with the next read (if tcp_read_size == 0 { continue; }).
ReadZero(h) == [h EXCEPT !.tcp_read_size = 0]

\* The call of parse_buff a handler makes in its inner loop.
ParseCall(h) == parse_buff(h.parser, h.buff, h.tcp_read_size, h.parsed_op_code, h.parsed_obj)

\* A handler that goes on parsing after every frame (what the handlers do not).
AfterParse_KeepsGoing(h, r, pc) ==
    [h EXCEPT !.pc = IF r.kind = "Frame" THEN "parse" ELSE pc,
              !.err = IF r.kind \in {"Frame", "Stall"} THEN @ ELSE r.kind,
              !.parser = r.parser,
              !.parsed_op_code = r.op_code,
              !.parsed_obj = r.obj,
              !.buff = r.buff,
              !.buff_left_over_size = IF r.kind = "Stall" THEN r.left_over_size ELSE @]

\* The handler's locals after that call returned r (parse_buff writes through
\* its &mut arguments also when it fails).
AfterParse(h, r, pc) ==
    [h EXCEPT !.pc = pc,
              !.err = IF r.kind \in {"Frame", "Stall"} THEN @ ELSE r.kind,
              !.parser = r.parser,
              !.parsed_op_code = r.op_code,
              !.parsed_obj = r.obj,
              !.buff = r.buff,
              !.buff_left_over_size = IF r.kind = "Stall" THEN r.left_over_size ELSE @]

(***************************************************************************)
(* The server: store and connection loop.                                  *)
(***************************************************************************)
\* A store that puts new entries in front (what CacheDb::push does not do).
push_front(store, obj) == <<obj>> \o store

\* CacheDb::push
push(store, obj) == Append(store, obj)

\* A lookup that takes the latest entry with the key (what CacheDb::get does not do).
get_last(store, key) ==
    LET hits == {i \in 1..Len(store) : store[i].key = key}
    IN IF hits = {} THEN [found |-> FALSE, obj |-> KeyValObj(key, Default)]
       ELSE [found |-> TRUE, obj |-> store[CHOOSE i \in hits : \A j \in hits : j <= i]]

\* CacheDb::get: the first entry with the key.
get(store, key) ==
    LET hits == {i \in 1..Len(store) : store[i].key = key}
    IN IF hits = {} THEN [found |-> FALSE, obj |-> KeyValObj(key, Default)]
       ELSE [found |-> TRUE, obj |-> store[CHOOSE i \in hits : \A j \in hits : i <= j]]

\* A set that adds the entry if the key is missing (what CacheDb::set does not do).
set_upsert(store, key, val) ==
    LET hits == {i \in 1..Len(store) : store[i].key = key}
    IN IF hits = {} THEN [ok |-> TRUE, store |-> Append(store, KeyValObj(key, val))]
       ELSE [ok |-> TRUE,
             store |-> [store EXCEPT ![CHOOSE i \in hits : \A j \in hits : i <= j].val = val]]

\* CacheDb::set: the first entry with the key takes the value.
set(store, key, val) ==
    LET hits == {i \in 1..Len(store) : store[i].key = key}
    IN IF hits = {} THEN [ok |-> FALSE, store |-> store]
       ELSE [ok |-> TRUE,
             store |-> [store EXCEPT ![CHOOSE i \in hits : \A j \in hits : i <= j].val = val]]

\* The reply the server writes for a PULL of parsed_obj.key.
PullReply(store, parsed_obj) ==
    LET got == get(store, parsed_obj.key)
    IN IF got.found
       THEN assemble_buff("PullReplyOp", got.obj)
       ELSE assemble_buff("PullReplyNotFoundOp", KeyValObj(parsed_obj.key, Default))

ServerRead(size) ==
    /\ srv.pc = "read"
    /\ size \in ReadSizes(srv, c2s)
    /\ srv' = ReadStep(srv, SubSeq(c2s, 1, size))
    /\ c2s' = SubSeq(c2s, size + 1, Len(c2s))
    /\ reads' = [bytewise |-> reads.bytewise /\ size = 1,
                 filling |-> reads.filling
                             /\ \A other \in ReadSizes(srv, c2s) : other <= size]
    /\ UNCHANGED <<conn2, local, key_val_store, s2c, rdr, key_val_sync_store, caller, ops,
                   input, emitted, hist>>

\* A read into the empty slice buff[TCP_READ_BUFF_SIZE..] returns 0 bytes and
\* the loop continues.
ServerReadZero ==
    /\ srv.pc = "read"
    /\ srv.buff_left_over_size = TCP_READ_BUFF_SIZE
    /\ srv' = ReadZero(srv)
    /\ UNCHANGED <<conn2, local, key_val_store, c2s, s2c, rdr, key_val_sync_store, caller,
                   ops, input, emitted, reads, hist>>

\* One call of parse_buff and the dispatch of what it returned.
ServerParse ==
    /\ srv.pc = "parse"
    /\ LET r == ParseCall(srv)
           op == r.op_code
       IN CASE r.kind = "Stall" ->
                 /\ srv' = AfterParse(srv, r, "read")
                 /\ UNCHANGED <<key_val_store, s2c, emitted>>
            [] r.kind = "Frame" ->
                 /\ emitted' = Append(emitted, [op_code |-> op, key |-> r.obj.key,
                                                val |-> r.obj.val])
                 /\ CASE op = "PushOp" ->
                           /\ key_val_store' = push(key_val_store, r.obj)
                           /\ srv' = AfterParse(srv, r, "parse")
                           /\ UNCHANGED s2c
                      [] op = "PullOp" ->
                           /\ s2c' = s2c \o PullReply(key_val_store, r.obj)
                           /\ srv' = AfterParse(srv, r, "parse")
                           /\ UNCHANGED key_val_store
                      [] OTHER ->
                           \* TerminateConn, or an opcode a server does not expect
                           /\ srv' = AfterParse(srv, r, "done")
                           /\ UNCHANGED <<key_val_store, s2c>>
            [] OTHER ->
                 \* Err(..).unwrap(), or the panic inside parse_buff
                 /\ srv' = AfterParse(srv, r, "panicked")
                 /\ UNCHANGED <<key_val_store, s2c, emitted>>
    /\ UNCHANGED <<conn2, local, c2s, rdr, key_val_sync_store, caller, ops, input, reads, hist>>

(***************************************************************************)
(* The client: callers of push / pull and the background reader.           *)
(*                                                                         *)
(* A caller holds the slot's pulling mutex from its lock() to its          *)
(* wait_timeout(), and again from its wake-up to its return, so each of    *)
(* these stretches is one step.  It holds the read lock of the slot table  *)
(* from its scan until it returns.  A wait ends by a notify_one or by the  *)
(* timeout; spurious wake-ups are not modelled.                            *)
(***************************************************************************)
NewCaller ==
    [pc |-> "idle", op |-> "none", key |-> Default, slot |-> 0,
     res |-> "none", got |-> Default]

\* KeyValObjSync as pull creates it (lib.rs:284).
NewSlot(key) == [key |-> key, val |-> Default, not_found |-> FALSE, pulling |-> FALSE]

\* The slot the scan of pull stops at: the first one with the key (0: none).
FirstSlot(slots, key) ==
    LET hits == {i \in 1..Len(slots) : slots[i].key = key}
    IN IF hits = {} THEN 0 ELSE CHOOSE i \in hits : \A j \in hits : i <= j

\* The callers blocked in pulling_sig.wait_timeout of slot i.
Waiting(i) == {t \in Threads : caller[t].pc = "waiting" /\ caller[t].slot = i}

\* notify_one wakes one of the waiters, if there is any.
WakeChoices(i) == IF Waiting(i) = {} THEN {"nobody"} ELSE Waiting(i)

\* A pull that requests whatever the slot says (what pull does not do).
MustRequest_Always(slot) == TRUE

\* pull sends a PULL frame only if the slot is not being pulled yet.
MustRequest(slot) == ~slot.pulling

\* The peer's handler thread has ended and dropped its socket.
ServerClosed == srv.pc \in {"done", "panicked"}

\* Whether a write of the client succeeds: always while the server holds the
\* socket, possibly not once the server has closed it.
WriteOutcomes == IF ServerClosed THEN {TRUE, FALSE} ELSE {TRUE}

\* A reply may still reach the client: a handler has bytes it can still work on.
HandlerBusy(h, wire) ==
    \/ h.pc \in {"parse", "notify"}
    \/ h.pc = "read" /\ ReadSizes(h, wire) # {}

\* The history kept of the client's calls.
InitHist ==
    [pulls_in_flight |-> [k \in Keys |-> 0],  \* PULL frames written since the last reply for k
     pushes |-> [k \in Keys |-> << >>],       \* the values pushed for k, in order
     expect |-> [t \in Threads |-> << >>],    \* pushes[k] when t called pull(k)
     held |-> [t \in Threads |-> FALSE],      \* the store had k when t called pull(k)
     served |-> [t \in Threads |-> 0],        \* the reply processed while t was waiting
     replies |-> 0,                           \* replies processed by the reader
     terminated |-> FALSE,                    \* terminate_conn has been called
     cut |-> [t \in Threads |-> FALSE],       \* terminate_conn was called while t was waiting
     late |-> [t \in Threads |-> FALSE]]      \* t called pull(k) after a pull(k) had timed out
                                              \* and no reply for k had been processed since

Frame(op_code, key, val) == [op_code |-> op_code, key |-> key, val |-> val]

\* CacheClient::push
Push(t, k, v) ==
    /\ caller[t].pc = "idle"
    /\ ops > 0
    /\ ops' = ops - 1
    /\ \E ok \in WriteOutcomes :
         IF assemble_err("PushOp", KeyValObj(k, v)) # "none"
         THEN /\ caller' = [caller EXCEPT ![t] =
                              [NewCaller EXCEPT !.op = "push", !.key = k,
                                                !.res = assemble_err("PushOp", KeyValObj(k, v))]]
              /\ hist' = [hist EXCEPT !.served[t] = 0]
              /\ UNCHANGED <<c2s, input>>
         ELSE IF ok
         THEN /\ c2s' = c2s \o assemble_buff("PushOp", KeyValObj(k, v))
              /\ input' = Append(input, Frame("PushOp", k, v))
              /\ caller' = [caller EXCEPT ![t] = [NewCaller EXCEPT !.op = "push", !.key = k,
                                                                   !.res = "Ok"]]
              /\ hist' = [hist EXCEPT
                            !.pushes[k] = Append(@, v),
                            \* a push during a pull of k: that pull is none "followed by"
                            !.expect = [u \in Threads |->
                                          IF caller[u].op = "pull" /\ caller[u].key = k
                                             /\ caller[u].pc # "idle"
                                          THEN << >> ELSE @[u]],
                            !.served[t] = 0]
         ELSE /\ caller' = [caller EXCEPT ![t] = [NewCaller EXCEPT !.op = "push", !.key = k,
                                                                   !.res = "NetworkError"]]
              /\ hist' = [hist EXCEPT !.served[t] = 0]
              /\ UNCHANGED <<c2s, input>>
    /\ UNCHANGED <<conn2, local, key_val_store, s2c, srv, rdr, key_val_sync_store, emitted, reads>>

\* pull: the scan of the slot table under its read lock and, at the slot of
\* the key, the request (if nobody is pulling) and the start of the wait.
\* cal and hst are the callers and the history the scan starts from.
Scan(t, cal, hst) ==
    LET k == cal[t].key
        i == FirstSlot(key_val_sync_store, k)
    IN IF i = 0
       THEN /\ caller' = [cal EXCEPT ![t].pc = "create"]
            /\ hist' = hst
            /\ UNCHANGED <<c2s, key_val_sync_store, input>>
       ELSE IF MustRequest(key_val_sync_store[i])
       THEN \E ok \in WriteOutcomes :
              IF assemble_err("PullOp", KeyValObj(k, Default)) # "none"
              THEN /\ caller' = [cal EXCEPT
                                   ![t].pc = "idle",
                                   ![t].res = assemble_err("PullOp", KeyValObj(k, Default))]
                   /\ hist' = hst
                   /\ UNCHANGED <<c2s, key_val_sync_store, input>>
              ELSE IF ok
              THEN /\ c2s' = c2s \o assemble_buff("PullOp", KeyValObj(k, Default))
                   /\ input' = Append(input, Frame("PullOp", k, Default))
                   /\ key_val_sync_store' = [key_val_sync_store EXCEPT ![i].pulling = TRUE]
                   /\ \E w \in WakeChoices(i) :
                        caller' = [u \in Threads |->
                                     IF u = t THEN [cal[t] EXCEPT !.pc = "waiting", !.slot = i]
                                     ELSE IF u = w THEN [cal[u] EXCEPT !.pc = "woken"]
                                     ELSE cal[u]]
                   /\ hist' = IF k \in Keys
                              THEN [hst EXCEPT !.pulls_in_flight[k] = @ + 1]
                              ELSE hst
              ELSE /\ caller' = [cal EXCEPT ![t].pc = "idle", ![t].res = "NetworkError"]
                   /\ hist' = hst
                   /\ UNCHANGED <<c2s, key_val_sync_store, input>>
       ELSE /\ caller' = [cal EXCEPT ![t].pc = "waiting", ![t].slot = i]
            /\ hist' = hst
            /\ UNCHANGED <<c2s, key_val_sync_store, input>>

\* Some pull(k) has returned NetworkTimeOutError and the PULL frame for k is
\* still unanswered.
TimedOutPending(k) ==
    /\ k \in Keys
    /\ hist.pulls_in_flight[k] = 1
    /\ \E u \in Threads :
         /\ caller[u].pc = "idle" /\ caller[u].op = "pull" /\ caller[u].key = k
         /\ caller[u].res = "NetworkTimeOutError"

\* A caller enters pull(k) and scans the slot table (nothing of pull before
\* the scan touches shared state).
PullCall(t, k) ==
    /\ caller[t].pc = "idle"
    /\ ops > 0
    /\ ops' = ops - 1
    /\ Scan(t,
            [caller EXCEPT ![t] = [NewCaller EXCEPT !.pc = "scan", !.op = "pull", !.key = k]],
            [hist EXCEPT !.expect[t] = IF k \in Keys THEN hist.pushes[k] ELSE << >>,
                         !.held[t] = get(key_val_store, k).found,
                         !.served[t] = 0,
                         !.cut[t] = FALSE,
                         !.late[t] = TimedOutPending(k)])
    /\ UNCHANGED <<conn2, local, key_val_store, s2c, srv, rdr, emitted, reads>>

\* pull_async: the spawned thread (t) enters the same loop as pull; its
\* result is what the JoinHandle yields.
PullAsyncCall(t, k) ==
    /\ caller[t].pc = "idle"
    /\ ops > 0
    /\ ops' = ops - 1
    /\ Scan(t,
            [caller EXCEPT ![t] = [NewCaller EXCEPT !.pc = "scan", !.op = "pull_async",
                                                    !.key = k]],
            [hist EXCEPT !.expect[t] = IF k \in Keys THEN hist.pushes[k] ELSE << >>,
                         !.held[t] = get(key_val_store, k).found,
                         !.served[t] = 0,
                         !.cut[t] = FALSE,
                         !.late[t] = FALSE])
    /\ UNCHANGED <<conn2, local, key_val_store, s2c, srv, rdr, emitted, reads>>

\* pull: the scan again, after the caller has created the slot.
PullScan(t) ==
    /\ caller[t].pc = "scan"
    /\ Scan(t, caller, hist)
    /\ UNCHANGED <<conn2, local, key_val_store, s2c, srv, rdr, ops, emitted, reads>>

\* The callers inside the loop over key_val_sync_store.read(): they hold the
\* read lock of the table until they return.
ReadLockHolders == {u \in Threads : caller[u].pc \in {"waiting", "woken"}}

\* A table whose write lock is granted whoever reads (what an RwLock does not do).
WriteLockFree_Always == TRUE

\* key_val_sync_store.write() can be taken: no caller and no dispatching
\* reader holds the read lock.
WriteLockFree == ReadLockHolders = {} /\ rdr.pc # "notify"

\* pull: no slot has the key; a new one is pushed under the write lock of the
\* table, which no waiter (they hold the read lock) and no dispatching reader
\* may hold at that time.
PullCreate(t) ==
    /\ caller[t].pc = "create"
    /\ WriteLockFree
    /\ key_val_sync_store' = Append(key_val_sync_store, NewSlot(caller[t].key))
    /\ caller' = [caller EXCEPT ![t].pc = "scan"]
    /\ UNCHANGED <<conn2, local, key_val_store, c2s, s2c, srv, rdr, ops, input, emitted, reads, hist>>

\* pull / pull_async: wait_timeout returned because of a notify_one.  pull
\* looks at the slot's not_found flag before it takes the value, the thread
\* of pull_async does not.
PullReturn(t) ==
    /\ caller[t].pc = "woken"
    /\ LET slot == key_val_sync_store[caller[t].slot]
           missing == caller[t].op = "pull" /\ slot.not_found
       IN caller' = [caller EXCEPT
                       ![t].pc = "idle",
                       ![t].res = IF missing THEN "KeyNotFound" ELSE "Ok",
                       ![t].got = IF missing THEN Default ELSE slot.val]
    /\ UNCHANGED <<conn2, local, key_val_store, c2s, s2c, srv, rdr, key_val_sync_store, ops, input,
                   emitted, reads, hist>>

\* A timeout that gives the request up (what pull does not do).
AfterTimeout_Reset(store, i) == [store EXCEPT ![i].pulling = FALSE]

\* The slots after a wait at slot i has timed out: pull returns the error
\* and touches nothing.
AfterTimeout(store, i) == store

\* pull: wait_timeout timed out.  CACHE_CLIENT_REQ_SIG_WAIT (10 s) is long
\* against every step of the handlers: it expires only when no reply can be
\* on its way any more.
PullTimeout(t) ==
    /\ caller[t].pc = "waiting"
    /\ ~HandlerBusy(srv, c2s)
    /\ ~HandlerBusy(rdr, s2c)
    /\ caller' = [caller EXCEPT ![t].pc = "idle", ![t].res = "NetworkTimeOutError"]
    /\ key_val_sync_store' = AfterTimeout(key_val_sync_store, caller[t].slot)
    /\ UNCHANGED <<conn2, local, key_val_store, c2s, s2c, srv, rdr, ops, input, emitted, reads, hist>>

RECURSIVE Ascending(_)
Ascending(S) ==
    IF S = {} THEN << >>
    ELSE LET m == CHOOSE i \in S : \A j \in S : i <= j
         IN <<m>> \o Ascending(S \ {m})

\* The slots after the reader has dispatched a reply: every slot with the
\* key takes the value, NOT_FOUND sets not_found (nothing ever clears it),
\* pulling is cleared.
ApplyReply(slots, op_code, obj) ==
    [i \in 1..Len(slots) |->
        IF slots[i].key = obj.key
        THEN [slots[i] EXCEPT !.val = obj.val,
                              !.not_found = @ \/ op_code = "PullReplyNotFoundOp",
                              !.pulling = FALSE]
        ELSE slots[i]]

ReaderRead(size) ==
    /\ rdr.pc = "read"
    /\ size \in ReadSizes(rdr, s2c)
    /\ rdr' = ReadStep(rdr, SubSeq(s2c, 1, size))
    /\ s2c' = SubSeq(s2c, size + 1, Len(s2c))
    /\ UNCHANGED <<conn2, local, key_val_store, c2s, srv, key_val_sync_store, caller, ops, input,
                   emitted, reads, hist>>

\* A read of 0 bytes (the server closed the socket, or the buffer is full of
\* carried bytes): the loop continues.
ReaderReadZero ==
    /\ rdr.pc = "read"
    /\ \/ rdr.buff_left_over_size = TCP_READ_BUFF_SIZE
       \/ ServerClosed /\ s2c = << >>
    /\ rdr' = ReadZero(rdr)
    /\ UNCHANGED <<conn2, local, key_val_store, c2s, s2c, srv, key_val_sync_store, caller,
                   ops, input, emitted, reads, hist>>

\* One call of parse_buff by the reader and the dispatch of what it returned.
ReaderParse ==
    /\ rdr.pc = "parse"
    /\ LET r == ParseCall(rdr)
           op == r.op_code
           hits == {i \in 1..Len(key_val_sync_store) : key_val_sync_store[i].key = r.obj.key}
       IN CASE r.kind = "Stall" ->
                 /\ rdr' = AfterParse(rdr, r, "read")
                 /\ UNCHANGED <<key_val_sync_store, hist>>
            [] r.kind = "Frame" /\ op \in {"PullReplyOp", "PullReplyNotFoundOp"} ->
                 /\ key_val_sync_store' = ApplyReply(key_val_sync_store, op, r.obj)
                 /\ rdr' = [AfterParse(rdr, r, IF hits = {} THEN "parse" ELSE "notify")
                              EXCEPT !.notify = Ascending(hits)]
                 /\ hist' = [hist EXCEPT
                               !.pulls_in_flight =
                                   [k \in Keys |-> IF k = r.obj.key THEN 0 ELSE @[k]],
                               !.replies = @ + 1,
                               !.served = [t \in Threads |->
                                             IF caller[t].pc = "waiting" /\ caller[t].slot \in hits
                                             THEN hist.replies + 1 ELSE @[t]]]
            [] r.kind = "Frame" ->
                 \* TerminateConn, or an opcode a client does not expect
                 /\ rdr' = AfterParse(rdr, r, "done")
                 /\ UNCHANGED <<key_val_sync_store, hist>>
            [] r.kind \in {"ParsingErr", "DecodingErr"} ->
                 /\ rdr' = AfterParse(rdr, r, "err")
                 /\ UNCHANGED <<key_val_sync_store, hist>>
            [] OTHER ->
                 /\ rdr' = AfterParse(rdr, r, "panicked")
                 /\ UNCHANGED <<key_val_sync_store, hist>>
    /\ UNCHANGED <<conn2, local, key_val_store, c2s, s2c, srv, caller, ops, input, emitted, reads>>

\* The notify_one that ends the dispatch of a reply at a slot.
ReaderNotify ==
    /\ rdr.pc = "notify"
    /\ \E w \in WakeChoices(Head(rdr.notify)) :
         caller' = [u \in Threads |->
                      IF u = w THEN [caller[u] EXCEPT !.pc = "woken"] ELSE caller[u]]
    /\ rdr' = [rdr EXCEPT !.notify = Tail(@),
                          !.pc = IF Tail(rdr.notify) = << >> THEN "parse" ELSE "notify"]
    /\ UNCHANGED <<conn2, local, key_val_store, c2s, s2c, srv, key_val_sync_store, ops, input,
                   emitted, reads, hist>>

(***************************************************************************)
(* SpecParser: one connection of the server fed a byte stream of encoded   *)
(* frames, cut into reads of every possible size.                          *)
(***************************************************************************)
ParserKeys == {Default, KeyA, LongKey}
ParserVals == {Default, ValX}

\* A frame of the stream: an opcode ("Bad" for a byte that is none), a key, a value.
ParserItems ==
    {it \in [op_code : ProtOpCode \cup {"Bad"}, key : ParserKeys, val : ParserVals] :
        it.op_code = "PullOp" => it.val = Default}

\* The bytes of a frame of the stream, as assemble_buff encodes it.
EncodeItem(it) ==
    IF it.op_code \in ProtOpCode
    THEN assemble_buff(it.op_code, KeyValObj(it.key, it.val))
    ELSE <<6>> \o Tail(assemble_buff("PushOp", KeyValObj(it.key, it.val)))

RECURSIVE EncodeStream(_)
EncodeStream(items) ==
    IF items = << >> THEN << >>
    ELSE EncodeItem(Head(items)) \o EncodeStream(Tail(items))

Streams == UNION {[1..n -> ParserItems] : n \in 1..MaxFrames}

InitParser ==
    /\ input \in Streams
    /\ c2s = EncodeStream(input)
    /\ s2c = << >>
    /\ key_val_store = << >>
    /\ srv = NewHandler("read")
    /\ rdr = NewHandler("off")
    /\ key_val_sync_store = << >>
    /\ caller = [t \in Threads |-> NewCaller]
    /\ ops = 0
    /\ emitted = << >>
    /\ reads = [bytewise |-> TRUE, filling |-> TRUE]
    /\ hist = InitHist
    /\ conn2 = NoConn
    /\ local = NoCall

NextParser ==
    \/ \E size \in 1..TCP_READ_BUFF_SIZE : ServerRead(size)
    \/ ServerReadZero
    \/ ServerParse

SpecParser == InitParser /\ [][NextParser]_vars

(***************************************************************************)
(* SpecCodec: one frame is assembled from an opcode, a key and a value     *)
(* (a value is supplied for every opcode) and written to a connection of   *)
(* the server, whose handler reads and parses it.                          *)
(***************************************************************************)
KeyAB == <<97, 98>>
CodecKeys == {Default, KeyA, KeyB, KeyAB}
CodecVals == {Default, ValX, ValY}

InitCodec ==
    /\ input \in {<<it>> : it \in [op_code : ProtOpCode, key : CodecKeys, val : CodecVals]}
    /\ c2s = << >>
    /\ s2c = << >>
    /\ key_val_store = << >>
    /\ srv = NewHandler("read")
    /\ rdr = NewHandler("off")
    /\ key_val_sync_store = << >>
    /\ caller = [t \in Threads |-> NewCaller]
    /\ ops = 1
    /\ emitted = << >>
    /\ reads = [bytewise |-> FALSE, filling |-> FALSE]
    /\ hist = InitHist
    /\ conn2 = NoConn
    /\ local = NoCall

\* The frame is assembled and written to the socket.
AssembleFrame ==
    /\ ops = 1
    /\ ops' = 0
    /\ c2s' = assemble_buff(input[1].op_code, KeyValObj(input[1].key, input[1].val))
    /\ UNCHANGED <<conn2, local, key_val_store, s2c, srv, rdr, key_val_sync_store, caller, input,
                   emitted, reads, hist>>

NextCodec ==
    \/ AssembleFrame
    \/ ServerRead(MaxRead(srv, c2s))
    \/ ServerParse

SpecCodec == InitCodec /\ [][NextCodec]_vars

(***************************************************************************)
(* SpecOverflow: the client and the server over one connection, with keys  *)
(* and values whose size does not fit into a u16.                          *)
(***************************************************************************)
HugeKey == [i \in 1..(U16_MAX + 1) |-> 107]
HugeVal == [i \in 1..(U16_MAX + 1) |-> 118]
OverflowKeys == {KeyA, HugeKey}
OverflowVals == {ValX, HugeVal}

InitOverflow ==
    /\ input = << >>
    /\ c2s = << >>
    /\ s2c = << >>
    /\ key_val_store = << >>
    /\ srv = NewHandler("read")
    /\ rdr = NewHandler("read")
    /\ key_val_sync_store = << >>
    /\ caller = [t \in Threads |-> NewCaller]
    /\ ops = MaxOverflowOps
    /\ emitted = << >>
    /\ reads = [bytewise |-> FALSE, filling |-> FALSE]
    /\ hist = InitHist
    /\ conn2 = NoConn
    /\ local = NoCall

NextOverflow ==
    \/ \E t \in Threads, k \in OverflowKeys, v \in OverflowVals : Push(t, k, v)
    \/ \E t \in Threads, k \in OverflowKeys : PullCall(t, k)
    \/ \E t \in Threads : PullScan(t)
    \/ \E t \in Threads : PullCreate(t)
    \/ \E t \in Threads : PullReturn(t)
    \/ \E t \in Threads : PullTimeout(t)
    \/ ServerRead(MaxRead(srv, c2s))
    \/ ServerParse
    \/ ReaderRead(MaxRead(rdr, s2c))
    \/ ReaderParse
    \/ ReaderNotify

SpecOverflow == InitOverflow /\ [][NextOverflow]_vars

(***************************************************************************)
(* SpecTerminate: the client and the server over one connection, which the *)
(* client's owner may end with terminate_conn.                             *)
(***************************************************************************)
\* The bytes terminate_conn writes (lib.rs:333).
term_seq == <<4, 0, 0, 0, 0>>

\* CacheClient::terminate_conn: it takes &mut self, so it is the client's
\* owner who calls it, once, at any time.
terminate_conn ==
    /\ ~hist.terminated
    /\ \E ok \in WriteOutcomes :
         IF ok
         THEN /\ c2s' = c2s \o term_seq
              /\ input' = Append(input, Frame(u8_to_prot_op_code(term_seq[1]),
                                              Default, Default))
         ELSE UNCHANGED <<c2s, input>>
    /\ hist' = [hist EXCEPT !.terminated = TRUE,
                            !.cut = [t \in Threads |-> caller[t].pc = "waiting"]]
    /\ UNCHANGED <<conn2, local, key_val_store, s2c, srv, rdr, key_val_sync_store, caller, ops,
                   emitted, reads>>

InitTerminate ==
    /\ input = << >>
    /\ c2s = << >>
    /\ s2c = << >>
    /\ key_val_store = << >>
    /\ srv = NewHandler("read")
    /\ rdr = NewHandler("read")
    /\ key_val_sync_store = << >>
    /\ caller = [t \in Threads |-> NewCaller]
    /\ ops = MaxTerminateOps
    /\ emitted = << >>
    /\ reads = [bytewise |-> FALSE, filling |-> FALSE]
    /\ hist = InitHist
    /\ conn2 = NoConn
    /\ local = NoCall

NextTerminate ==
    \/ \E t \in Threads, k \in Keys, v \in Vals : Push(t, k, v)
    \/ \E t \in Threads, k \in Keys : PullCall(t, k)
    \/ \E t \in Threads : PullScan(t)
    \/ \E t \in Threads : PullCreate(t)
    \/ \E t \in Threads : PullReturn(t)
    \/ \E t \in Threads : PullTimeout(t)
    \/ terminate_conn
    \/ ServerRead(MaxRead(srv, c2s))
    \/ ServerParse
    \/ ReaderRead(MaxRead(rdr, s2c))
    \/ ReaderReadZero
    \/ ReaderParse
    \/ ReaderNotify

SpecTerminate == InitTerminate /\ [][NextTerminate]_vars

(***************************************************************************)
(* SpecAsync: the client and the server over one connection, with callers  *)
(* of pull and of pull_async.                                              *)
(***************************************************************************)
InitAsync ==
    /\ input = << >>
    /\ c2s = << >>
    /\ s2c = << >>
    /\ key_val_store = << >>
    /\ srv = NewHandler("read")
    /\ rdr = NewHandler("read")
    /\ key_val_sync_store = << >>
    /\ caller = [t \in Threads |-> NewCaller]
    /\ ops = MaxAsyncOps
    /\ emitted = << >>
    /\ reads = [bytewise |-> FALSE, filling |-> FALSE]
    /\ hist = InitHist
    /\ conn2 = NoConn
    /\ local = NoCall

NextAsync ==
    \/ \E t \in Threads, k \in Keys, v \in Vals : Push(t, k, v)
    \/ \E t \in Threads, k \in Keys : PullCall(t, k)
    \/ \E t \in Threads, k \in Keys : PullAsyncCall(t, k)
    \/ \E t \in Threads : PullScan(t)
    \/ \E t \in Threads : PullCreate(t)
    \/ \E t \in Threads : PullReturn(t)
    \/ \E t \in Threads : PullTimeout(t)
    \/ ServerRead(MaxRead(srv, c2s))
    \/ ServerParse
    \/ ReaderRead(MaxRead(rdr, s2c))
    \/ ReaderParse
    \/ ReaderNotify

SpecAsync == InitAsync /\ [][NextAsync]_vars

(***************************************************************************)
(* SpecServer: the server with two connections, each served by its own     *)
(* client_handler thread on the shared store.  The second connection is    *)
(* fed streams that make its handler fail (a byte that is no opcode, a key *)
(* that is no UTF-8) and its peer may close the socket, so that writes to  *)
(* it fail; the first connection is accepted at any time, also after the   *)
(* second one's handler has ended.                                         *)
(***************************************************************************)
\* A key from_utf8 rejects.
BadKey == <<250>>

GoodItems == {Frame("PushOp", KeyA, ValY), Frame("PullOp", KeyA, Default)}
FailingItems == {Frame("PushOp", KeyA, ValX), Frame("PullOp", KeyA, Default),
                 Frame("Bad", KeyA, ValX), Frame("PushOp", BadKey, ValX)}

GoodStreams == UNION {[1..n -> GoodItems] : n \in 1..MaxServerFrames}
FailingStreams == UNION {[1..n -> FailingItems] : n \in 1..MaxServerFrames}

\* A panic that takes the whole process down (what a panic in a spawned
\* thread does not do).
PanicAborts_Always == TRUE

\* The handler's unwrap() panics inside a thread::spawn'ed thread, outside
\* cache.push and cache.get: the panic unwinds that thread only and poisons
\* no lock.
PanicAborts == FALSE

Ended2 == conn2.h.pc \in {"done", "panicked"}

\* cache_db_server: listener.accept() hands the next connection to a new
\* client_handler thread.
Accept(stream) ==
    /\ srv.pc = "off"
    /\ srv' = NewHandler("read")
    /\ input' = stream
    /\ c2s' = EncodeStream(stream)
    /\ conn2' = [conn2 EXCEPT !.ended_first = Ended2]
    /\ UNCHANGED <<key_val_store, s2c, rdr, key_val_sync_store, caller, ops, emitted,
                   reads, hist, local>>

\* The peer of the second connection closes its socket.
Conn2PeerClose ==
    /\ ~conn2.peer_closed
    /\ conn2' = [conn2 EXCEPT !.peer_closed = TRUE]
    /\ UNCHANGED <<key_val_store, c2s, s2c, srv, rdr, key_val_sync_store, caller, ops,
                   input, emitted, reads, hist, local>>

\* client_handler of the second connection: one read.
Conn2Read ==
    /\ conn2.h.pc = "read"
    /\ MaxRead(conn2.h, conn2.c2s) > 0
    /\ LET n == MaxRead(conn2.h, conn2.c2s)
       IN conn2' = [conn2 EXCEPT !.h = ReadStep(@, SubSeq(conn2.c2s, 1, n)),
                                 !.c2s = SubSeq(@, n + 1, Len(@))]
    /\ UNCHANGED <<key_val_store, c2s, s2c, srv, rdr, key_val_sync_store, caller, ops,
                   input, emitted, reads, hist, local>>

\* client_handler of the second connection: one call of parse_buff and the
\* dispatch of what it returned.  socket.write fails only on a socket the
\* peer has closed; a failed write leaves the loop.
Conn2Parse ==
    /\ conn2.h.pc = "parse"
    /\ LET r == ParseCall(conn2.h)
           op == r.op_code
           seen == Append(conn2.emitted, Frame(op, r.obj.key, r.obj.val))
       IN CASE r.kind = "Stall" ->
                 /\ conn2' = [conn2 EXCEPT !.h = AfterParse(@, r, "read")]
                 /\ UNCHANGED <<key_val_store, srv>>
            [] r.kind = "Frame" /\ op = "PushOp" ->
                 /\ key_val_store' = push(key_val_store, r.obj)
                 /\ conn2' = [conn2 EXCEPT !.h = AfterParse(@, r, "parse"),
                                           !.emitted = seen]
                 /\ UNCHANGED srv
            [] r.kind = "Frame" /\ op = "PullOp" ->
                 /\ \E ok \in (IF conn2.peer_closed THEN {TRUE, FALSE} ELSE {TRUE}) :
                      conn2' = [conn2 EXCEPT
                                  !.h = AfterParse(@, r, IF ok THEN "parse" ELSE "done"),
                                  !.emitted = seen,
                                  !.s2c = IF ok THEN @ \o PullReply(key_val_store, r.obj)
                                          ELSE @]
                 /\ UNCHANGED <<key_val_store, srv>>
            [] r.kind = "Frame" ->
                 /\ conn2' = [conn2 EXCEPT !.h = AfterParse(@, r, "done"), !.emitted = seen]
                 /\ UNCHANGED <<key_val_store, srv>>
            [] OTHER ->
                 \* Err(..).unwrap(), or the panic inside parse_buff
                 /\ conn2' = [conn2 EXCEPT !.h = AfterParse(@, r, "panicked")]
                 /\ srv' = IF PanicAborts THEN [srv EXCEPT !.pc = "panicked"] ELSE srv
                 /\ UNCHANGED key_val_store
    /\ UNCHANGED <<c2s, s2c, rdr, key_val_sync_store, caller, ops, input, emitted,
                   reads, hist, local>>

InitServer ==
    /\ input = << >>
    /\ c2s = << >>
    /\ s2c = << >>
    /\ key_val_store = << >>
    /\ srv = NewHandler("off")
    /\ rdr = NewHandler("off")
    /\ key_val_sync_store = << >>
    /\ caller = [t \in Threads |-> NewCaller]
    /\ ops = 0
    /\ emitted = << >>
    /\ reads = [bytewise |-> FALSE, filling |-> FALSE]
    /\ hist = InitHist
    /\ \E stream \in FailingStreams :
         conn2 = [NoConn EXCEPT !.h = NewHandler("read"), !.input = stream,
                                !.c2s = EncodeStream(stream)]
    /\ local = NoCall

NextServer ==
    \/ \E stream \in GoodStreams : Accept(stream)
    \/ ServerRead(MaxRead(srv, c2s))
    \/ ServerParse
    \/ Conn2PeerClose
    \/ Conn2Read
    \/ Conn2Parse

SpecServer == InitServer /\ [][NextServer]_vars

(***************************************************************************)
(* SpecStore: a CacheDb used in its own process (no connection), as the    *)
(* test local_cache_db_test uses it.                                       *)
(***************************************************************************)
Call(op, key, val, res) == [op |-> op, key |-> key, val |-> val, res |-> res]

\* cache.push(KeyValObj{key, val})
LocalPush(k, v) ==
    /\ Len(local) < MaxStoreOps
    /\ key_val_store' = push(key_val_store, KeyValObj(k, v))
    /\ local' = Append(local, Call("push", k, v, "Ok"))
    /\ UNCHANGED <<c2s, s2c, srv, rdr, key_val_sync_store, caller, ops, input, emitted,
                   reads, hist, conn2>>

\* cache.get(&key): Some(entry) or None.
LocalGet(k) ==
    /\ Len(local) < MaxStoreOps
    /\ LET got == get(key_val_store, k)
       IN local' = Append(local, IF got.found
                                 THEN Call("get", k, got.obj.val, "Some")
                                 ELSE Call("get", k, Default, "None"))
    /\ UNCHANGED <<key_val_store, c2s, s2c, srv, rdr, key_val_sync_store, caller, ops,
                   input, emitted, reads, hist, conn2>>

\* cache.set(key, val): Ok(()) or Err(KeyNotFound).
LocalSet(k, v) ==
    /\ Len(local) < MaxStoreOps
    /\ LET r == set(key_val_store, k, v)
       IN /\ key_val_store' = r.store
          /\ local' = Append(local, Call("set", k, v, IF r.ok THEN "Ok" ELSE "KeyNotFound"))
    /\ UNCHANGED <<c2s, s2c, srv, rdr, key_val_sync_store, caller, ops, input, emitted,
                   reads, hist, conn2>>

InitStore ==
    /\ input = << >>
    /\ c2s = << >>
    /\ s2c = << >>
    /\ key_val_store = << >>
    /\ srv = NewHandler("off")
    /\ rdr = NewHandler("off")
    /\ key_val_sync_store = << >>
    /\ caller = [t \in Threads |-> NewCaller]
    /\ ops = 0
    /\ emitted = << >>
    /\ reads = [bytewise |-> FALSE, filling |-> FALSE]
    /\ hist = InitHist
    /\ conn2 = NoConn
    /\ local = NoCall

NextStore ==
    \/ \E k \in Keys, v \in Vals : LocalPush(k, v)
    \/ \E k \in Keys : LocalGet(k)
    \/ \E k \in Keys, v \in Vals : LocalSet(k, v)

SpecStore == InitStore /\ [][NextStore]_vars

(***************************************************************************)
(* SpecFirstMatch: one connection pushes and pulls "a" while the program   *)
(* that embeds the CacheDb pushes, sets and gets "a" itself, so that the   *)
(* store comes to hold several entries for the key.                        *)
(***************************************************************************)
InitFirstMatch ==
    /\ input \in GoodStreams
    /\ c2s = EncodeStream(input)
    /\ s2c = << >>
    /\ key_val_store = << >>
    /\ srv = NewHandler("read")
    /\ rdr = NewHandler("off")
    /\ key_val_sync_store = << >>
    /\ caller = [t \in Threads |-> NewCaller]
    /\ ops = 0
    /\ emitted = << >>
    /\ reads = [bytewise |-> FALSE, filling |-> FALSE]
    /\ hist = InitHist
    /\ conn2 = NoConn
    /\ local = NoCall

NextFirstMatch ==
    \/ \E v \in Vals : LocalPush(KeyA, v)
    \/ \E v \in Vals : LocalSet(KeyA, v)
    \/ LocalGet(KeyA)
    \/ ServerRead(MaxRead(srv, c2s))
    \/ ServerParse

SpecFirstMatch == InitFirstMatch /\ [][NextFirstMatch]_vars

(***************************************************************************)
(* SpecZeroRead: the client and the server over one connection, with       *)
(* fields longer than the read buffer on both wires: the client pulls a    *)
(* key longer than the buffer, and the store holds (pushed by the program  *)
(* that embeds the CacheDb) a value longer than the buffer.  A handler     *)
(* whose buffer is full of carried bytes reads into an empty slice and     *)
(* gets 0 bytes.                                                           *)
(***************************************************************************)
ZeroReadKeys == {KeyA, KeyB, LongKey}

InitZeroRead ==
    /\ input = << >>
    /\ c2s = << >>
    /\ s2c = << >>
    /\ key_val_store = <<KeyValObj(KeyA, LongKey)>>
    /\ srv = NewHandler("read")
    /\ rdr = NewHandler("read")
    /\ key_val_sync_store = << >>
    /\ caller = [t \in Threads |-> NewCaller]
    /\ ops = MaxZeroReadOps
    /\ emitted = << >>
    /\ reads = [bytewise |-> FALSE, filling |-> FALSE]
    /\ hist = InitHist
    /\ conn2 = NoConn
    /\ local = <<Call("push", KeyA, LongKey, "Ok")>>

NextZeroRead ==
    \/ \E t \in Threads, k \in ZeroReadKeys : PullCall(t, k)
    \/ \E t \in Threads : PullScan(t)
    \/ \E t \in Threads : PullCreate(t)
    \/ \E t \in Threads : PullReturn(t)
    \/ \E t \in Threads : PullTimeout(t)
    \/ ServerRead(MaxRead(srv, c2s))
    \/ ServerReadZero
    \/ ServerParse
    \/ ReaderRead(MaxRead(rdr, s2c))
    \/ ReaderReadZero
    \/ ReaderParse
    \/ ReaderNotify

SpecZeroRead == InitZeroRead /\ [][NextZeroRead]_vars

(***************************************************************************)
(* Spec: the client and the server over one connection.                    *)
(***************************************************************************)
Init ==
    /\ input = << >>
    /\ c2s = << >>
    /\ s2c = << >>
    /\ key_val_store = << >>
    /\ srv = NewHandler("read")
    /\ rdr = NewHandler("read")
    /\ key_val_sync_store = << >>
    /\ caller = [t \in Threads |-> NewCaller]
    /\ ops = MaxOps
    /\ emitted = << >>
    /\ reads = [bytewise |-> FALSE, filling |-> FALSE]
    /\ hist = InitHist
    /\ conn2 = NoConn
    /\ local = NoCall

Next ==
    \/ \E t \in Threads, k \in Keys, v \in Vals : Push(t, k, v)
    \/ \E t \in Threads, k \in Keys : PullCall(t, k)
    \/ \E t \in Threads : PullScan(t)
    \/ \E t \in Threads : PullCreate(t)
    \/ \E t \in Threads : PullReturn(t)
    \/ \E t \in Threads : PullTimeout(t)
    \/ ServerRead(MaxRead(srv, c2s))
    \/ ServerParse
    \/ ReaderRead(MaxRead(rdr, s2c))
    \/ ReaderParse
    \/ ReaderNotify

Spec == Init /\ [][Next]_vars

(***************************************************************************)
(* What the statements below speak about.                                  *)
(***************************************************************************)
\* Thread t has returned from a pull.
Returned(t) == caller[t].pc = "idle" /\ caller[t].op = "pull" /\ caller[t].res # "none"

\* The frame a reader of the stream should get for an item of it (a PULL
\* carries no value).
Expected(it) ==
    Frame(it.op_code, it.key, IF it.op_code = "PullOp" THEN Default ELSE it.val)

ExpectedFrames == [i \in 1..Len(input) |-> Expected(input[i])]

\* Every frame of the stream starts with an opcode.
ValidStream == \A i \in 1..Len(input) : input[i].op_code \in ProtOpCode

\* The first frame of the stream that starts with a byte that is no opcode (0: none).
FirstBad ==
    LET bad == {i \in 1..Len(input) : input[i].op_code \notin ProtOpCode}
    IN IF bad = {} THEN 0 ELSE CHOOSE i \in bad : \A j \in bad : i <= j

IsPrefix(a, b) == Len(a) <= Len(b) /\ SubSeq(b, 1, Len(a)) = a

\* The server's handler can take no further step on the stream.
Quiescent == srv.pc = "read" /\ ReadSizes(srv, c2s) = {}
Ended == srv.pc \in {"done", "panicked"}

\* The frames client_handler emits for the bytes `wire` when every read
\* delivers all that is in flight and fits into the buffer.
RECURSIVE Serve(_, _, _)
Serve(h, wire, out) ==
    IF h.pc = "read"
    THEN LET n == MaxRead(h, wire)
         IN IF n = 0 THEN out
            ELSE Serve(ReadStep(h, SubSeq(wire, 1, n)), SubSeq(wire, n + 1, Len(wire)), out)
    ELSE LET r == ParseCall(h)
             more == Append(out, Frame(r.op_code, r.obj.key, r.obj.val))
         IN CASE r.kind = "Stall" -> Serve(AfterParse(h, r, "read"), wire, out)
              [] r.kind = "Frame" ->
                   IF r.op_code \in {"PushOp", "PullOp"}
                   THEN Serve(AfterParse(h, r, "parse"), wire, more)
                   ELSE more
              [] OTHER -> out

\* The first frame written was a push, every later one a pull of its key.
OnlyPullsOfPushedKey ==
    /\ Len(input) >= 1
    /\ input[1].op_code = "PushOp"
    /\ \A i \in 2..Len(input) : input[i].op_code = "PullOp" /\ input[i].key = input[1].key

C2_EveryWaiterWakes ==
    /\ \A t \in Threads :
         (hist.served[t] # 0 /\ caller[t].pc = "waiting") =>
            (rdr.pc = "notify" \/ \E u \in Threads : caller[u].pc = "woken")
    /\ \A t, u \in Threads :
         (Returned(t) /\ Returned(u) /\ hist.served[t] # 0
          /\ hist.served[t] = hist.served[u]) =>
            (caller[t].res = caller[u].res /\ caller[t].got = caller[u].got)

\* C3: on a client used by one thread, a pull of K called after the only
\* push(K, V) so far returns V.
C3_PushThenPullReturnsValue ==
    \A t \in Threads :
       (/\ Returned(t)
        /\ Len(hist.expect[t]) = 1
        /\ \A u \in Threads \ {t} : caller[u].op = "none") =>
          (caller[t].res = "Ok" /\ caller[t].got = hist.expect[t][1])

\* C4: a pull of a key that was never pushed returns KeyNotFound.
C4_UnknownKeyNotFound ==
    \A t \in Threads :
       (Returned(t) /\ hist.pushes[caller[t].key] = << >>) =>
          caller[t].res = "KeyNotFound"

\* C5: when the key was pushed first and the server held it before the
\* pulls were called, every pull of it returns the stored value; none
\* times out.
C5_RepeatedPullsReturnValue ==
    \A t \in Threads :
       (Returned(t) /\ OnlyPullsOfPushedKey /\ hist.held[t]) =>
          (caller[t].res = "Ok" /\ caller[t].got = input[1].val)

(***************************************************************************)
(* The parser under the server's read loop (SpecParser).                   *)
(***************************************************************************)
\* C6: one encoded frame read one byte per read does not end the handler,
\* emits nothing before its last byte is read and emits exactly that frame
\* once it is.
C6_ByteAtATime ==
    (Len(input) = 1 /\ ValidStream /\ reads.bytewise) =>
       /\ srv.pc # "panicked"
       /\ c2s # << >> => emitted = << >>
       /\ (c2s = << >> /\ srv.pc # "parse") => emitted = ExpectedFrames

\* C7: the frames emitted for a stream of encoded frames are, in order, the
\* frames of the stream, with their own opcode, key and value.
C7_FramesInOrder == ValidStream => IsPrefix(emitted, ExpectedFrames)

\* C8: when the handler can go no further, it has emitted the frames it
\* emits when the same stream is read in reads that fill the buffer.
C8_SplitIndependent ==
    (Quiescent \/ Ended) =>
       emitted = Serve(NewHandler("read"), EncodeStream(input), << >>)

\* C9: a byte at the opcode segment that is none of 1..5 makes parse_buff
\* return ParsingErr, which ends the handler; no frame is emitted for that
\* byte or for anything after it.
C9_UnknownOpcodeStops ==
    /\ FirstBad # 0 => Len(emitted) < FirstBad
    /\ srv.err = "ParsingErr" => srv.pc = "panicked"
    /\ (/\ srv.pc = "parse"
        /\ srv.parser.parsed_protocoll_segment = 0
        /\ srv.parser.parsed_bytes_total < srv.tcp_read_size
        /\ srv.buff[srv.parser.parsed_bytes_total + 1] \notin 1..5) =>
          ParseCall(srv).kind = "ParsingErr"

\* The handler ended with ParsingErr after it had emitted a frame, with bytes
\* of the stream still unread.
C9_StoppedAtBadOpcode ==
    /\ srv.err = "ParsingErr"
    /\ srv.pc = "panicked"
    /\ Len(emitted) = FirstBad - 1
    /\ Len(emitted) >= 1
    /\ c2s # << >>

\* C10: a single frame, read in reads that fill the buffer, has been emitted
\* when the handler has read all it can (also when its key is longer than
\* the buffer).
C10_LongFieldParsed ==
    (Len(input) = 1 /\ ValidStream /\ reads.filling /\ Quiescent) =>
       emitted = ExpectedFrames

(***************************************************************************)
(* The frame encoder (SpecCodec).                                          *)
(***************************************************************************)
\* The frame has been written and nothing of it has been read yet.
Assembled == ops = 0 /\ srv.pc = "read" /\ srv.tcp_read_size = 0

\* The two bytes of a size, most significant first.
BigEndian(n) == <<n \div 256, n % 256>>

C12_NoValueForValuelessOpcodes ==
    LET it == input[1]
    IN Assembled =>
          Len(c2s) = 1 + 2 + Len(it.key) + 2
                     + (IF it.op_code \in {"PushOp", "PullReplyOp"} THEN Len(it.val) ELSE 0)

(***************************************************************************)
(* Sizes that overflow (SpecOverflow).                                     *)
(***************************************************************************)
\* C13: a push or pull whose key or value is larger than the limit of get_size returns the
\* size error of the encoder: no frame with such a field is ever written, a
\* call that returns the error has written nothing, and a slot with such a
\* key is never marked pulling.
C13_OverflowWritesNothing ==
    /\ [](/\ \A i \in 1..Len(input) :
               Len(input[i].key) <= U16_MAX /\ Len(input[i].val) <= U16_MAX
          /\ \A t \in Threads :
               (caller[t].pc = "idle" /\ caller[t].op # "none"
                /\ Len(caller[t].key) > U16_MAX) =>
                  caller[t].res = "ProtocolSizeBufferOverflow"
          /\ \A i \in 1..Len(key_val_sync_store) :
               Len(key_val_sync_store[i].key) > U16_MAX => ~key_val_sync_store[i].pulling)
    /\ [][\A t \in Threads :
            (caller'[t] # caller[t] /\ caller'[t].res = "ProtocolSizeBufferOverflow") =>
               c2s' = c2s]_vars

\* A pull of a key one byte over the limit has returned the error; its slot exists
\* and is not pulling, and nothing is on the wire.
C13_PullOverflowed ==
    \E t \in Threads :
       /\ caller[t].pc = "idle"
       /\ caller[t].op = "pull"
       /\ caller[t].key = HugeKey
       /\ caller[t].res = "ProtocolSizeBufferOverflow"
       /\ FirstSlot(key_val_sync_store, HugeKey) # 0
       /\ ~key_val_sync_store[FirstSlot(key_val_sync_store, HugeKey)].pulling
       /\ input = << >>

(***************************************************************************)
(* The server's dispatch (SpecParser).                                     *)
(***************************************************************************)
\* The reply to a PULL of key against store: PULL_REPLY with the key and the
\* value get finds, or PULL_REPLY_NOT_FOUND with the key and no value.
ReplyBytes(store, key) ==
    IF get(store, key).found
    THEN <<3>> \o BigEndian(Len(key)) \o key
              \o BigEndian(Len(get(store, key).obj.val)) \o get(store, key).obj.val
    ELSE <<4>> \o BigEndian(Len(key)) \o key \o <<0, 0>>

\* The store and the replies after a connection loop has dispatched frames,
\* one after the other, starting from st: a PUSH appends its entry, a PULL
\* is answered, any other frame ends the loop.
RECURSIVE Dispatch(_, _)
Dispatch(frames, st) ==
    IF frames = << >> THEN st
    ELSE LET f == Head(frames)
         IN CASE f.op_code = "PushOp" ->
                   Dispatch(Tail(frames),
                            [st EXCEPT !.store = Append(@, KeyValObj(f.key, f.val))])
              [] f.op_code = "PullOp" ->
                   Dispatch(Tail(frames),
                            [st EXCEPT !.replies = @ \o ReplyBytes(st.store, f.key)])
              [] OTHER -> st

Fresh == [store |-> << >>, replies |-> << >>]

\* The handler has worked through all the bytes of the stream, or left its loop.
Settled ==
    \/ srv.pc = "done"
    \/ srv.pc = "read" /\ c2s = << >> /\ srv.buff_left_over_size = 0

OpCodes(frames) == [i \in 1..Len(frames) |-> frames[i].op_code]

\* The first frame of the stream that is neither a PUSH nor a PULL (0: none).
FirstStop ==
    LET stop == {i \in 1..Len(input) : input[i].op_code \notin {"PushOp", "PullOp"}}
    IN IF stop = {} THEN 0 ELSE CHOOSE i \in stop : \A j \in stop : i <= j

\* C14: when the handler has worked through a stream of frames, it has
\* written one reply for each PULL frame of the stream, PULL_REPLY with the
\* stored value or PULL_REPLY_NOT_FOUND with the key of that PULL, and the
\* store has as many entries as PUSH frames were dispatched.
C14_OneReplyPerPull ==
    (ValidStream /\ Settled) =>
       /\ s2c = Dispatch(ExpectedFrames, Fresh).replies
       /\ Len(key_val_store) = Cardinality({i \in 1..Len(emitted) : emitted[i].op_code = "PushOp"})

\* C15: when the handler has worked through a stream of frames, the store
\* holds the (key, value) of each PUSH frame of the stream, in order, and a
\* stream without a PULL has caused no reply.
C15_PushAppendsItsEntry ==
    (ValidStream /\ Settled) =>
       /\ key_val_store = Dispatch(ExpectedFrames, Fresh).store
       /\ (\A i \in 1..Len(input) : input[i].op_code # "PullOp") => s2c = << >>

\* C16: a dispatched frame that is neither a PUSH nor a PULL is the last one
\* dispatched and the handler has left its loop; nothing after the first
\* such frame of the stream is dispatched, and only dispatched PUSH frames
\* have added to the store.
C16_TerminateEndsLoop ==
    /\ \A i \in 1..Len(emitted) :
         emitted[i].op_code \notin {"PushOp", "PullOp"} => (i = Len(emitted) /\ srv.pc = "done")
    /\ srv.pc = "done" =>
         (emitted # << >> /\ emitted[Len(emitted)].op_code \notin {"PushOp", "PullOp"})
    /\ FirstStop # 0 => Len(emitted) <= FirstStop
    /\ Len(key_val_store) = Cardinality({i \in 1..Len(emitted) : emitted[i].op_code = "PushOp"})

\* The handler left its loop at a TERMINATE frame while a further frame was
\* in its buffer, read but not parsed.
C16_LeftWithFrameInBuffer ==
    /\ srv.pc = "done"
    /\ Len(input) = 2
    /\ emitted = <<Frame("TerminateConn", Default, Default)>>
    /\ input[2].op_code = "PushOp"
    /\ c2s = << >>
    /\ srv.tcp_read_size > srv.parser.parsed_bytes_total
    /\ key_val_store = << >>

\* C17: the frames are dispatched in the order of the stream, and the store
\* and the replies written are those of dispatching them one after the
\* other: the i-th reply answers the i-th PULL dispatched, looked up in a
\* store that holds every PUSH dispatched before it.
C17_WireOrder ==
    /\ IsPrefix(OpCodes(emitted), OpCodes(input))
    /\ key_val_store = Dispatch(emitted, Fresh).store
    /\ s2c = Dispatch(emitted, Fresh).replies

\* A PUSH and then a PULL of its key have been dispatched and answered.
C17_PushThenPullAnswered ==
    /\ Len(emitted) = 2
    /\ emitted[1] = Frame("PushOp", KeyA, ValX)
    /\ emitted[2].op_code = "PullOp" /\ emitted[2].key = KeyA
    /\ s2c = <<3, 0, 1, 97, 0, 1, 120>>

(***************************************************************************)
(* The end of a connection (SpecTerminate).                                *)
(***************************************************************************)
\* C18: the frame terminate_conn writes is a TERMINATE frame with an empty
\* key and an empty value, and the only frames the server decodes that are
\* neither PUSH nor PULL are TERMINATE frames.
C18_TerminateFrame ==
    /\ hist.terminated /\ c2s # << >> =>
          \E i \in 1..Len(input) : input[i] = Frame("TerminateConn", Default, Default)
    /\ \A i \in 1..Len(emitted) :
          emitted[i].op_code \notin {"PushOp", "PullOp"} =>
             emitted[i].op_code = "TerminateConn"

C20_TimeoutLeavesPulling ==
    /\ [](\A t \in Threads :
            /\ (/\ Returned(t)
                /\ caller[t].res = "NetworkTimeOutError"
                /\ hist.served[t] = 0
                /\ hist.pulls_in_flight[caller[t].key] = 1) =>
                  key_val_sync_store[caller[t].slot].pulling
            /\ (hist.late[t] /\ Returned(t) /\ hist.served[t] = 0) =>
                  caller[t].res = "NetworkTimeOutError")
    /\ [][\A t \in Threads :
            /\ (caller[t].pc = "waiting" /\ caller'[t].res = "NetworkTimeOutError") =>
                  key_val_sync_store' = key_val_sync_store
            /\ (/\ caller[t].pc \in {"idle", "scan"}
                /\ caller'[t].pc = "waiting"
                /\ key_val_sync_store[caller'[t].slot].pulling) =>
                  (c2s' = c2s /\ input' = input)
            /\ (caller[t].pc = "idle" /\ caller'[t].pc # "idle" /\ hist'.late[t]) =>
                  (c2s' = c2s /\ caller'[t].pc = "waiting")]_vars

\* A pull called after a pull of the same key had timed out has timed out
\* too; one PULL frame for the key was written and the slot is still pulling.
C20_TimedOutInTurn ==
    \E t \in Threads :
       /\ Returned(t)
       /\ hist.late[t]
       /\ caller[t].res = "NetworkTimeOutError"
       /\ key_val_sync_store[caller[t].slot].pulling
       /\ Cardinality({i \in 1..Len(input) :
                         input[i].op_code = "PullOp" /\ input[i].key = caller[t].key}) = 1

(***************************************************************************)
(* The slot table of the client (Spec).                                    *)
(***************************************************************************)
\* C21: when the reader has processed a PULL_REPLY, the not_found flag of
\* every slot it was dispatched to is false.
C21_ReplyClearsNotFound ==
    (rdr.pc = "notify" /\ rdr.parsed_op_code = "PullReplyOp") =>
        \A i \in 1..Len(key_val_sync_store) :
            key_val_sync_store[i].key = rdr.parsed_obj.key =>
                ~key_val_sync_store[i].not_found

\* C27: no two slots of the table have equal keys.
C27_OneSlotPerKey ==
    \A i, j \in 1..Len(key_val_sync_store) :
        key_val_sync_store[i].key = key_val_sync_store[j].key => i = j

\* C29: while a caller waits in pull it holds the read lock of the table, so
\* a caller that found no slot for its key stays where it is; the step that
\* lets it go on adds its slot, at a time when nobody waits, and writes
\* nothing: its PULL frame is written only after that.
C29_WaiterBlocksNewSlot ==
    [][\A t \in Threads :
         /\ (caller[t].pc = "create" /\ ReadLockHolders # {}) =>
               (caller'[t] = caller[t] /\ Len(key_val_sync_store') = Len(key_val_sync_store))
         /\ (caller[t].pc = "create" /\ caller'[t] # caller[t]) =>
               /\ ReadLockHolders = {}
               /\ key_val_sync_store' =
                     Append(key_val_sync_store, NewSlot(caller[t].key))
               /\ c2s' = c2s /\ input' = input]_vars

\* A caller has found no slot for "b" and has to add one while another
\* caller waits for the reply to its PULL of "a"; no PULL of "b" is written.
C29_BlockedBehindWaiter ==
    \E t, u \in Threads :
       /\ caller[t].pc = "create" /\ caller[t].key = KeyB
       /\ caller[u].pc = "waiting" /\ caller[u].key = KeyA
       /\ FirstSlot(key_val_sync_store, KeyB) = 0
       /\ \A i \in 1..Len(input) : ~(input[i].op_code = "PullOp" /\ input[i].key = KeyB)

(***************************************************************************)
(* Empty fields (SpecParser).                                              *)
(***************************************************************************)
\* C25: the step that emits a frame leaves the parser at the opcode segment;
\* a key of size 0 is not decoded (parsed_obj.key is what it was before the
\* step), a value of size 0 is not decoded either, and a field that is not
\* empty is decoded; a first frame with both sizes 0, read whole, has been
\* emitted when the handler can go no further.
C25_EmptyFieldsSkipCodec ==
    /\ [](LET it == Expected(input[1])
          IN (/\ it.op_code \in ProtOpCode
              /\ it.key = Default /\ it.val = Default
              /\ reads.filling
              /\ (Quiescent \/ Ended)) =>
                (Len(emitted) >= 1 /\ emitted[1] = Frame(it.op_code, Default, Default)))
    /\ [][Len(emitted') > Len(emitted) =>
            LET n == Len(emitted')
                f == emitted'[n]
                it == Expected(input[n])
            IN /\ srv'.parser.parsed_protocoll_segment = 0
               /\ f.op_code = it.op_code
               /\ f.key = IF it.key = Default THEN srv.parsed_obj.key ELSE it.key
               /\ f.val = IF it.val = Default THEN srv.parsed_obj.val ELSE it.val]_vars

\* A frame with both sizes 0 has been emitted after a PUSH of "a" and "x":
\* no codec has touched the key and the value, and the parser is back at the
\* opcode segment.
C25_EmptyFrameEmitted ==
    /\ input = <<Frame("PushOp", KeyA, ValX), Frame("PushOp", Default, Default)>>
    /\ Len(emitted) = 2
    /\ emitted[2] = Frame("PushOp", KeyA, ValX)
    /\ srv.parser.parsed_protocoll_segment = 0
    /\ srv.parser.key_size = 0 /\ srv.parser.val_size = 0

(***************************************************************************)
(* pull_async (SpecAsync).                                                 *)
(***************************************************************************)
\* C22: the thread of pull_async that is woken returns what pull returns
\* from the same slot: KeyNotFound if the slot's not_found flag is set, the
\* slot's value otherwise.
C22_AsyncLikePull ==
    [][\A t \in Threads :
         (/\ caller[t].op = "pull_async"
          /\ caller[t].pc = "woken"
          /\ caller'[t].pc = "idle") =>
            LET slot == key_val_sync_store[caller[t].slot]
            IN /\ caller'[t].res = IF slot.not_found THEN "KeyNotFound" ELSE "Ok"
               /\ caller'[t].got = IF slot.not_found THEN Default ELSE slot.val]_vars

(***************************************************************************)
(* The store used in its own process (SpecStore).                          *)
(***************************************************************************)
\* The calls before the n-th that wrote key k: its pushes and the sets that
\* found it.
Writes(k, n) ==
    {i \in 1..(n - 1) : local[i].key = k /\ local[i].op \in {"push", "set"}
                        /\ local[i].res = "Ok"}

Pushes(k, n) == {i \in 1..(n - 1) : local[i].key = k /\ local[i].op = "push"}

\* No key has been pushed twice.
DistinctPushes ==
    \A i, j \in 1..Len(local) :
        (local[i].op = "push" /\ local[j].op = "push" /\ local[i].key = local[j].key) => i = j

\* C24: with pushes of distinct keys, a get of a key that was pushed returns
\* the value last written to it (by its push or by a later set), a get of a
\* key never pushed returns None, a set of a key that was pushed returns Ok
\* and a set of a key never pushed returns KeyNotFound; a set changes no
\* entry of another key, and a set that returns KeyNotFound changes nothing.
C24_LocalStore ==
    /\ [](DistinctPushes =>
            \A n \in 1..Len(local) :
               LET c == local[n]
                   w == Writes(c.key, n)
               IN /\ (c.op = "get" /\ Pushes(c.key, n) # {}) =>
                         /\ c.res = "Some"
                         /\ c.val = local[CHOOSE i \in w : \A j \in w : j <= i].val
                  /\ (c.op = "get" /\ Pushes(c.key, n) = {}) => c.res = "None"
                  /\ c.op = "set" =>
                         c.res = IF Pushes(c.key, n) # {} THEN "Ok" ELSE "KeyNotFound")
    /\ [][(Len(local') > Len(local) /\ local'[Len(local')].op = "set") =>
            LET c == local'[Len(local')]
            IN /\ Len(key_val_store') = Len(key_val_store)
               /\ \A i \in 1..Len(key_val_store) :
                     /\ key_val_store'[i].key = key_val_store[i].key
                     /\ key_val_store[i].key # c.key =>
                           key_val_store'[i] = key_val_store[i]
               /\ c.res = "KeyNotFound" => key_val_store' = key_val_store]_vars

\* "a" was pushed, set to another value and read back; "b" was never pushed.
C24_SetThenGet ==
    /\ Len(local) = 3
    /\ local[1] = Call("push", KeyA, ValX, "Ok")
    /\ local[2] = Call("set", KeyA, ValY, "Ok")
    /\ local[3] = Call("get", KeyA, ValY, "Some")

(***************************************************************************)
(* Two connections (SpecServer).                                           *)
(***************************************************************************)
NumPushes(frames) == Cardinality({i \in 1..Len(frames) : frames[i].op_code = "PushOp"})

\* C23: a handler that ends on a failed write, a parse error or a decode
\* error ends alone: the step that ends it changes neither the store nor
\* the other connection; the other connection's handler never ends, is
\* accepted also after the failure, emits every frame of its stream and
\* is answered from the store as it is, with the entries both connections
\* have pushed.
C23_ErrorsStayLocal ==
    /\ [](/\ srv.pc \in {"off", "read", "parse"}
          /\ conn2.h.err \in {"ParsingErr", "DecodingErr"} => conn2.h.pc = "panicked"
          /\ Len(key_val_store) = NumPushes(emitted) + NumPushes(conn2.emitted)
          /\ (srv.pc = "read" /\ c2s = << >> /\ srv.buff_left_over_size = 0) =>
                /\ Len(emitted) = Len(input)
                /\ \A i \in 1..Len(input) :
                      /\ emitted[i].op_code = input[i].op_code
                      /\ emitted[i].key = input[i].key)
    /\ [][/\ (~Ended2 /\ conn2'.h.pc \in {"done", "panicked"}) =>
               UNCHANGED <<key_val_store, srv, c2s, s2c, emitted, input>>
          /\ s2c' # s2c =>
               /\ Len(emitted') = Len(emitted) + 1
               /\ emitted'[Len(emitted')].op_code = "PullOp"
               /\ s2c' = s2c \o ReplyBytes(key_val_store,
                                            emitted'[Len(emitted')].key)]_vars

\* The second connection's handler pushed "a" and then died of a byte that
\* is no opcode; the first connection was accepted after that and its PULL
\* of "a" has been answered with the value.
C23_ServedAfterFailure ==
    /\ conn2.h.pc = "panicked"
    /\ conn2.h.err = "ParsingErr"
    /\ conn2.emitted = <<Frame("PushOp", KeyA, ValX)>>
    /\ conn2.ended_first
    /\ input = <<Frame("PullOp", KeyA, Default)>>
    /\ emitted = input
    /\ s2c = <<3, 0, 1, 97, 0, 1, 120>>

(***************************************************************************)
(* Several entries for one key (SpecFirstMatch).                           *)
(***************************************************************************)
\* The position of the earliest entry for key in store (0: none).
Earliest(store, key) ==
    IF \E i \in 1..Len(store) : store[i].key = key
    THEN CHOOSE i \in 1..Len(store) :
            /\ store[i].key = key
            /\ \A j \in 1..(i - 1) : store[j].key # key
    ELSE 0

\* C28: the store only grows, at its end, and a new entry for a key the
\* store already has changes no entry; get and the reply to a PULL give the
\* value of the earliest entry for the key; set changes the value of that
\* entry and nothing else.
C28_FirstMatch ==
    [][LET e == Earliest(key_val_store, KeyA)
           last == local'[Len(local')]
       IN /\ IsPrefix(OpCodes(emitted), OpCodes(emitted'))
          /\ \/ key_val_store' = key_val_store
             \/ Len(key_val_store') = Len(key_val_store) + 1
                /\ SubSeq(key_val_store', 1, Len(key_val_store)) = key_val_store
             \/ /\ Len(local') > Len(local) /\ last.op = "set" /\ e # 0
                /\ key_val_store' = [key_val_store EXCEPT ![e].val = last.val]
          /\ (Len(local') > Len(local) /\ last.op = "get") =>
                last = IF e = 0 THEN Call("get", KeyA, Default, "None")
                       ELSE Call("get", KeyA, key_val_store[e].val, "Some")
          /\ (Len(local') > Len(local) /\ last.op = "set") =>
                last.res = IF e = 0 THEN "KeyNotFound" ELSE "Ok"
          /\ s2c' # s2c =>
                s2c' = s2c \o (IF e = 0 THEN <<4, 0, 1, 97, 0, 0>>
                               ELSE <<3, 0, 1, 97, 0, 1>> \o key_val_store[e].val)]_vars

\* The store holds two entries for "a": the earlier one, pushed with "y" and
\* set to "x", and the one the connection pushed with "y"; the PULL of "a"
\* has been answered with "x".
C28_EarlierEntryWins ==
    /\ local = <<Call("push", KeyA, ValY, "Ok"), Call("set", KeyA, ValX, "Ok")>>
    /\ key_val_store = <<KeyValObj(KeyA, ValX), KeyValObj(KeyA, ValY)>>
    /\ OpCodes(emitted) = <<"PushOp", "PullOp">>
    /\ s2c = <<3, 0, 1, 97, 0, 1, 120>>

(***************************************************************************)
(* Reads of 0 bytes (SpecZeroRead).                                        *)
(***************************************************************************)
\* What a handler carries from one read to the next.
Carried(h) == <<h.pc, h.parser, h.buff, h.buff_left_over_size, h.parsed_op_code,
                h.parsed_obj, h.err, h.notify>>

\* C26: a read that takes no byte off the wire leaves the handler at its
\* read with the parser, the buffer and the count of carried bytes as they
\* were, and changes neither the store nor the slot table nor anything else
\* (only tcp_read_size is 0 now); this holds for the server's handler and
\* for the client's reader.
C26_ZeroReadIgnored ==
    [][/\ (srv.pc = "read" /\ srv' # srv /\ c2s' = c2s) =>
             /\ Carried(srv') = Carried(srv)
             /\ srv'.tcp_read_size = 0
             /\ UNCHANGED <<key_val_store, key_val_sync_store, s2c, rdr, caller, emitted>>
       /\ (rdr.pc = "read" /\ rdr' # rdr /\ s2c' = s2c) =>
             /\ Carried(rdr') = Carried(rdr)
             /\ rdr'.tcp_read_size = 0
             /\ UNCHANGED <<key_val_store, key_val_sync_store, c2s, srv, caller, emitted>>]_vars

\* Both handlers have read 0 bytes into a buffer full of carried bytes and
\* are at their read again.
C26_BothReadZero ==
    /\ srv.pc = "read" /\ srv.buff_left_over_size = TCP_READ_BUFF_SIZE
    /\ srv.tcp_read_size = 0
    /\ rdr.pc = "read" /\ rdr.buff_left_over_size = TCP_READ_BUFF_SIZE
    /\ rdr.tcp_read_size = 0

====
